---- MODULE Spec2Model ----
(***************************************************************************)
(* Verification model of TuxSEO's client-side content-generation           *)
(* controllers (task polling, step pipeline, retry pipeline, onboarding    *)
(* modal), the sitemap batch analysis, the analytics constants and the     *)
(* container entrypoint.                                                   *)
(*                                                                         *)
(* Each component has its own variables (prefix p, g, b, s, a, e, o), its  *)
(* initial predicate and next-state relation, and its own specification;   *)
(* a specification leaves the other components idle.                       *)
(***************************************************************************)
EXTENDS Integers, Sequences, FiniteSets, TLC

VARIABLES
    \* ---- polling generate-content controller (src/unnamed/part_006)
    pStorage,          \* localStorage entry blog_generation_task_<suggestionId>
    pNow,              \* Date.now(), in clock units of TimeUnitMinutes minutes
    pConnected,        \* the controller is connected to the DOM
    pButton,           \* buttonContainerTarget: "Generate" | "Generating" | "ViewPost"
    pStatus,           \* statusTarget: "Ready" | "Generating" | "Generated"
    pMessage,          \* last showMessage text
    pollingTimeoutId,  \* this.pollingTimeoutId: 0 (null) or the session owning the timer
    pSess,             \* polling sessions, one per _pollTaskStatus() call
    pGen,              \* generate(): "idle" | "posting" (start request in flight)
    \* ---- pipeline generate-content controller
    \*      (src/frontend/src/controllers/generate-content-controller.js)
    gButton,           \* buttonContainerTarget
    gButtonPostId,     \* data-generate-content-blog-post-id-value of the Continue button
    gStatusText,       \* statusTarget: "Ready" | "Generated"
    gMessage,          \* last showMessage: "none" | "success" | "error"
    gDialogs,          \* number of #generation-progress-dialog elements in the document
    gMarks,            \* icon of each step in the progress dialog
    gBlogPostId,       \* this.blogPostId (0: undefined)
    gOp,               \* the handler running, or the last one run
    gPc,               \* its position: the request in flight, or how it ended
    gCur,              \* the step whose request is in flight
    gTodo,             \* the steps the loop has still to execute
    gStatusData,       \* history: the status data continue() received
    gReqs,             \* history: requests issued by this run, in order
    gRes,              \* history: their answers, in order
    \* ---- blog-generation-pipeline controller (src/unnamed/part_007)
    bStarted,          \* startPipeline() was clicked in this page life
    bBlogPostId,       \* this.blogPostId (0: null)
    bRetryCount,       \* this.retryCount, by step index (0: key absent)
    bRetryButton,      \* retryButtonTarget: shown or hidden, and the step of its button
    bError,            \* errorMessageTarget: "hidden" or the kind of message shown
    bStepStatus,       \* status text of each step in stepsTarget
    bProgress,         \* progressBarTarget width, in percent
    bCompletions,      \* history: number of onPipelineComplete() calls
    bFlows,            \* the async calls of startPipeline() / retryStep() in flight
    bReqCount,         \* history: step requests issued, by step index
    bOutcome,          \* history: last answer to each step's request ("none": none yet)
    \* ---- sitemap analysis tasks (design document src/unnamed/part_014)
    sUrl,              \* Project.sitemap_url is set, by project
    sParseQueued,      \* a parse_sitemap_and_save_urls task is queued, by project
    sSize,             \* number of SitemapPage records saved, by project
    sAnalyzed,         \* the pages whose date_analyzed is set
    sCount,            \* history: how often each page was marked analyzed
    sQueue,            \* queued analyze_sitemap_pages tasks, by project
    sBroken,           \* the pages Jina Reader or the summary agent fails on
    \* ---- analytics constants (src/frontend/src/constants/analytics_events.js)
    aTaxonomy,         \* the content of core/analytics/event_taxonomy.json
    aLoaded,           \* the module has been evaluated
    aNames,            \* ANALYTICS_EVENT_NAMES
    aEvents,           \* ANALYTICS_EVENTS
    aAliases,          \* DEPRECATED_ANALYTICS_EVENT_ALIASES
    \* ---- container entrypoint (src/unnamed/part_000)
    eArgs,             \* "$@"
    ePc,               \* position in the script
    eServer,           \* $server: "unset" | "true" | "false"
    eOptind,           \* OPTIND
    eOptpos,           \* getopts' position inside a group of options
    eInvalid,          \* number of "Invalid option" messages on stderr
    eLog,              \* history: the commands run and their exit statuses
    \* ---- onboarding modal controller (src/frontend/src/application/index.js)
    oInput,            \* urlInputTarget.value
    oEvents,           \* history: number of input events
    currentStep,       \* this.currentStep
    validationTimeout, \* this.validationTimeout: 0 (null) or the id of the last timer
    oTimers,           \* the pending reachability timers, each with its url_value
    oChecks,           \* the /api/validate-url requests in flight, by url
    isUrlReachable,    \* this.isUrlReachable
    oDisabled,         \* continueButtonTarget.disabled
    oUrlError,         \* urlErrorTarget is shown
    oSubmit,           \* submitProject(): "idle" | "posting" | "created" | "done"
    oSent,             \* history: the urls of the reachability requests sent
    oVerified,         \* history: the urls the server reported reachable
    oSubmitted         \* history: the urls sent to /api/projects/

pVars == <<pStorage, pNow, pConnected, pButton, pStatus, pMessage,
           pollingTimeoutId, pSess, pGen>>

gVars == <<gButton, gButtonPostId, gStatusText, gMessage, gDialogs, gMarks,
           gBlogPostId, gOp, gPc, gCur, gTodo, gStatusData, gReqs, gRes>>

bVars == <<bStarted, bBlogPostId, bRetryCount, bRetryButton, bError, bStepStatus,
           bProgress, bCompletions, bFlows, bReqCount, bOutcome>>

sVars == <<sUrl, sParseQueued, sSize, sAnalyzed, sCount, sQueue, sBroken>>

aVars == <<aTaxonomy, aLoaded, aNames, aEvents, aAliases>>

eVars == <<eArgs, ePc, eServer, eOptind, eOptpos, eInvalid, eLog>>

oVars == <<oInput, oEvents, currentStep, validationTimeout, oTimers, oChecks,
           isUrlReachable, oDisabled, oUrlError, oSubmit, oSent, oVerified,
           oSubmitted>>

vars == <<pVars, gVars, bVars, sVars, aVars, eVars, oVars>>

\* -------------------------------------------------------------------------
\* Polling generate-content controller
\* -------------------------------------------------------------------------

\* bounds of the model
MaxSessions == 2       \* _pollTaskStatus() calls in one page life
MaxTicks == 3          \* clock values above the epoch base
EpochBase == 4         \* Date.now() of the first clock value, in clock units
ShortPolls == 2        \* 'processing' answers per session in the bounded runs

\* program constants
maxAttempts == 100
ResumeWindowMinutes == 10
TimeUnitMinutes == 5   \* minutes per clock unit (granularity of the model clock)

TaskIds == {"t1", "t2"}
Undefined == "undefined"

Times == EpochBase .. (EpochBase + MaxTicks)

\* a JSON value found under startTime
StartTimes ==
    {[kind |-> "num", v |-> t] : t \in Times}
    \cup {[kind |-> k, v |-> 0] : k \in {"undefined", "null", "string"}}

NoEntry == [kind |-> "absent", taskId |-> Undefined,
            startTime |-> [kind |-> "undefined", v |-> 0]]

ObjEntry(taskId, st) == [kind |-> "obj", taskId |-> taskId, startTime |-> st]

\* every string localStorage may hold under the key, and its absence
Entries ==
    {NoEntry}
    \cup {[NoEntry EXCEPT !.kind = k] : k \in {"empty", "garbage", "null"}}
    \cup {ObjEntry(t, st) : t \in TaskIds \cup {Undefined}, st \in StartTimes}

\* JSON.stringify({taskId, startTime: Date.now()})
StoredTask(taskId, now) == ObjEntry(taskId, [kind |-> "num", v |-> now])

\* if (taskData): null and "" are falsy
Truthy(entry) == entry.kind \notin {"absent", "empty"}

\* JSON.parse(taskData) followed by the destructuring { taskId, startTime }
ParseThrows(entry) == entry.kind \in {"garbage", "null"}

\* Date.now() - startTime is NaN for undefined and for a non-numeric string
ElapsedIsNaN(entry) == entry.startTime.kind \in {"undefined", "string"}

\* (Date.now() - startTime) / 1000 / 60 ; Number(null) is 0
elapsedMinutes(entry, now) ==
    IF entry.startTime.kind = "null"
    THEN now * TimeUnitMinutes
    ELSE (now - entry.startTime.v) * TimeUnitMinutes

\* elapsedMinutes < 10 (false for NaN)
Resumes(entry, now) ==
    /\ ~ElapsedIsNaN(entry)
    /\ elapsedMinutes(entry, now) < ResumeWindowMinutes

\* attempts: the closure variable; requests and last: history of the session
NewSession(taskId) == [taskId |-> taskId, attempts |-> 0, requests |-> 0,
                       phase |-> "timer", last |-> "none"]

\* _pollTaskStatus(taskId): declares attempts = 0 and sets the first timer
pollTaskStatus(taskId) ==
    /\ pSess' = Append(pSess, NewSession(taskId))
    /\ pollingTimeoutId' = Len(pSess) + 1

PInit ==
    /\ pStorage \in Entries
    /\ pNow \in Times
    /\ pConnected = FALSE
    /\ pButton = "Generate"
    /\ pStatus = "Ready"
    /\ pMessage = "none"
    /\ pollingTimeoutId = 0
    /\ pSess = <<>>
    /\ pGen = "idle"

PIdle ==
    /\ pStorage = NoEntry
    /\ pNow = EpochBase
    /\ pConnected = FALSE
    /\ pButton = "Generate"
    /\ pStatus = "Ready"
    /\ pMessage = "none"
    /\ pollingTimeoutId = 0
    /\ pSess = <<>>
    /\ pGen = "idle"

\* connect() with _checkForOngoingTask()
connect ==
    /\ ~pConnected
    /\ pConnected' = TRUE
    /\ IF ~Truthy(pStorage)
       THEN /\ pollingTimeoutId' = 0
            /\ UNCHANGED <<pStorage, pButton, pStatus, pSess>>
       ELSE IF ParseThrows(pStorage)
       THEN /\ pStorage' = NoEntry
            /\ pollingTimeoutId' = 0
            /\ UNCHANGED <<pButton, pStatus, pSess>>
       ELSE IF Resumes(pStorage, pNow)
       THEN /\ Len(pSess) < MaxSessions
            /\ pButton' = "Generating"
            /\ pStatus' = "Generating"
            /\ pollTaskStatus(pStorage.taskId)
            /\ UNCHANGED pStorage
       ELSE /\ pStorage' = NoEntry
            /\ pollingTimeoutId' = 0
            /\ UNCHANGED <<pButton, pStatus, pSess>>
    /\ UNCHANGED <<pNow, pMessage, pGen>>

\* disconnect(): clears the timer pollingTimeoutId names, if it is pending
disconnect ==
    /\ pConnected
    /\ pConnected' = FALSE
    /\ IF pollingTimeoutId # 0
       THEN /\ pSess' = [pSess EXCEPT ![pollingTimeoutId].phase =
                            IF @ = "timer" THEN "cleared" ELSE @]
            /\ pollingTimeoutId' = 0
       ELSE UNCHANGED <<pSess, pollingTimeoutId>>
    /\ UNCHANGED <<pStorage, pNow, pButton, pStatus, pMessage, pGen>>

\* _resetToInitialState()
resetToInitialState ==
    /\ pStorage' = NoEntry
    /\ pButton' = "Generate"
    /\ pStatus' = "Ready"

\* _updateToCompletedState(blogPostId)
updateToCompletedState ==
    /\ pStorage' = NoEntry
    /\ pButton' = "ViewPost"
    /\ pStatus' = "Generated"
    /\ pMessage' = "Content generated successfully!"

\* generate(event) up to the start request
generateClick ==
    /\ pConnected
    /\ pButton = "Generate"
    /\ pGen = "idle"
    /\ pButton' = "Generating"
    /\ pStatus' = "Generating"
    /\ pGen' = "posting"
    /\ UNCHANGED <<pStorage, pNow, pConnected, pMessage, pollingTimeoutId, pSess>>

GenerateAnswers == {"throw", "notok", "error", "processing", "processing_no_task",
                    "other"}

\* generate(event) from the start request's answer on
generateResponse(answer, taskId) ==
    /\ pGen = "posting"
    /\ pGen' = "idle"
    /\ IF answer = "processing"
       THEN /\ Len(pSess) < MaxSessions
            /\ pStorage' = StoredTask(taskId, pNow)
            /\ pMessage' = "Blog post generation started!"
            /\ pollTaskStatus(taskId)
            /\ UNCHANGED <<pButton, pStatus>>
       ELSE /\ pMessage' = CASE answer = "throw" -> "Failed to generate content"
                             [] answer \in {"notok", "error"} -> "Generation failed"
                             [] OTHER -> "Unexpected response status"
            /\ resetToInitialState
            /\ UNCHANGED <<pSess, pollingTimeoutId>>
    /\ UNCHANGED <<pNow, pConnected>>

\* the timer of session s fires: poll() up to the task-status request
pollFire(s) ==
    /\ pSess[s].phase = "timer"
    /\ pSess' = [pSess EXCEPT ![s].attempts = @ + 1,
                              ![s].requests = @ + 1,
                              ![s].phase = "fetch"]
    /\ UNCHANGED <<pStorage, pNow, pConnected, pButton, pStatus, pMessage,
                   pollingTimeoutId, pGen>>

PollAnswers == {"throw", "notok", "completed", "failed", "processing", "error",
                "other"}

\* attempts >= maxAttempts
AttemptsExhaustedMutant(attempts) == attempts > maxAttempts

AttemptsExhausted(attempts) == attempts >= maxAttempts

\* poll() from the task-status answer on
pollResponse(s, answer) ==
    /\ pSess[s].phase = "fetch"
    /\ CASE answer = "completed" ->
              /\ updateToCompletedState
              /\ pSess' = [pSess EXCEPT ![s].phase = "ended", ![s].last = answer]
              /\ UNCHANGED pollingTimeoutId
         [] answer = "processing" /\ ~AttemptsExhausted(pSess[s].attempts) ->
              /\ pStatus' = "Generating"
              /\ pSess' = [pSess EXCEPT ![s].phase = "timer", ![s].last = answer]
              /\ pollingTimeoutId' = s
              /\ UNCHANGED <<pStorage, pButton, pMessage>>
         [] answer = "other" ->
              /\ pSess' = [pSess EXCEPT ![s].phase = "ended", ![s].last = answer]
              /\ UNCHANGED <<pStorage, pButton, pStatus, pMessage, pollingTimeoutId>>
         [] OTHER ->
              /\ pMessage' =
                   CASE answer = "processing" ->
                          "Content generation is taking longer than expected"
                     [] answer = "failed" -> "Content generation failed"
                     [] answer = "error" -> "Content generation encountered an error"
                     [] OTHER -> "Failed to check task status"
              /\ resetToInitialState
              /\ pSess' = [pSess EXCEPT ![s].phase = "ended", ![s].last = answer]
              /\ UNCHANGED pollingTimeoutId
    /\ UNCHANGED <<pNow, pConnected, pGen>>

\* the clock advances
Tick ==
    /\ pNow < EpochBase + MaxTicks
    /\ pNow' = pNow + 1
    /\ UNCHANGED <<pStorage, pConnected, pButton, pStatus, pMessage,
                   pollingTimeoutId, pSess, pGen>>

\* ---- environments of the polling controller
\* the server answers 'processing' only ShortPolls times per session
ShortAnswer(s, answer) == answer = "processing" => pSess[s].attempts <= ShortPolls

PollFires == \E s \in DOMAIN pSess : pollFire(s)

PollAnswersShort ==
    \E s \in DOMAIN pSess, answer \in PollAnswers :
        ShortAnswer(s, answer) /\ pollResponse(s, answer)

PollAnswersLong ==
    \E s \in DOMAIN pSess, answer \in PollAnswers : pollResponse(s, answer)

\* one generate() per page life, answered with task id t1
GenerateOnce == generateClick /\ pSess = <<>>

GenerateAnswered ==
    \E answer \in GenerateAnswers :
        generateResponse(answer, "t1") /\ Len(pSess') <= 1

ConnectOnce == connect /\ Len(pSess') <= 1

\* one polling session: the first connect() or one generate() starts it
PInitLong ==
    /\ PInit
    /\ pNow = EpochBase
    /\ pStorage \in {NoEntry, StoredTask("t1", EpochBase)}

\* -------------------------------------------------------------------------
\* Pipeline generate-content controller
\* -------------------------------------------------------------------------

\* this.pipelineSteps
pipelineSteps == <<"structure", "content", "preliminary_validation",
                   "internal_links", "final_validation">>

FrontendSteps == {pipelineSteps[i] : i \in DOMAIN pipelineSteps}

BackendSteps == {"generate_structure", "generate_content", "preliminary_validation",
                 "insert_internal_links", "final_validation"}

\* _getBackendStepName() without its table: backend_names[name] is undefined
getBackendStepNameMutant(frontend_step_name) == frontend_step_name

\* _getBackendStepName(frontend_step_name)
getBackendStepName(frontend_step_name) ==
    CASE frontend_step_name = "structure" -> "generate_structure"
      [] frontend_step_name = "content" -> "generate_content"
      [] frontend_step_name = "preliminary_validation" -> "preliminary_validation"
      [] frontend_step_name = "internal_links" -> "insert_internal_links"
      [] frontend_step_name = "final_validation" -> "final_validation"
      [] OTHER -> frontend_step_name

\* step_name_map of continue(): backend name to frontend name
step_name_map(backend_step_name) ==
    CASE backend_step_name = "generate_structure" -> "structure"
      [] backend_step_name = "generate_content" -> "content"
      [] backend_step_name = "preliminary_validation" -> "preliminary_validation"
      [] backend_step_name = "insert_internal_links" -> "internal_links"
      [] backend_step_name = "final_validation" -> "final_validation"

\* blog post ids the server hands out
PostIds == {1, 2}

\* the status of a step in statusData.steps; "missing": the key is absent
StepStatuses == {"completed", "failed", "missing"}

NoSteps == [b \in BackendSteps |-> "missing"]

\* the JSON of the status endpoint: steps present or not, and each step's status
StatusDatas ==
    {[hasSteps |-> FALSE, steps |-> NoSteps]}
    \cup {[hasSteps |-> TRUE, steps |-> f] : f \in [BackendSteps -> StepStatuses]}

NoStatusData == [hasSteps |-> FALSE, steps |-> NoSteps]

\* statusData.steps?.[backend_step]: the status, "missing" when undefined
stepStatusOf(statusData, backend_step) ==
    IF statusData.hasSteps /\ backend_step \in BackendSteps
    THEN statusData.steps[backend_step]
    ELSE "missing"

\* continue() that executes only the steps without a status: !step_status
needsExecutionMutant(statusData, frontend_step) ==
    stepStatusOf(statusData, getBackendStepName(frontend_step)) = "missing"

\* !step_status || step_status.status !== "completed"
needsExecution(statusData, frontend_step) ==
    stepStatusOf(statusData, getBackendStepName(frontend_step)) # "completed"

\* steps_to_execute of continue()
steps_to_execute(statusData) ==
    SelectSeq(pipelineSteps, LAMBDA st : needsExecution(statusData, st))

NoMarks == [st \in FrontendSteps |-> "none"]

\* the marks continue() sets from the status data before executing steps
marksFromStatus(statusData) ==
    [st \in FrontendSteps |->
        IF \E b \in BackendSteps :
              /\ step_name_map(b) = st
              /\ stepStatusOf(statusData, b) = "completed"
        THEN "completed" ELSE "none"]

\* answers to a step request: HTTP ok with the step's status in pipeline_state
\* (completed, failed, or no pipeline_state), HTTP error, or a thrown fetch
StepAnswers == {"ok_completed", "ok_failed", "ok_nostate", "notok", "throw"}

\* _executeStep() that does not look at pipeline_state
stepSucceededMutant(answer) == answer \in {"ok_completed", "ok_nostate", "ok_failed"}

\* _executeStep(): response.ok and the step's status is not "failed"
stepSucceeded(answer) == answer \in {"ok_completed", "ok_nostate"}

GInit ==
    /\ gButton \in {"Generate", "Continue"}
    /\ gButtonPostId \in (IF gButton = "Continue" THEN PostIds ELSE {0})
    /\ gStatusText = "Ready"
    /\ gMessage = "none"
    /\ gDialogs = 0
    /\ gMarks = NoMarks
    /\ gBlogPostId = 0
    /\ gOp = "none"
    /\ gPc = "idle"
    /\ gCur = "none"
    /\ gTodo = <<>>
    /\ gStatusData = NoStatusData
    /\ gReqs = <<>>
    /\ gRes = <<>>

GIdle ==
    /\ gButton = "Generate"
    /\ gButtonPostId = 0
    /\ gStatusText = "Ready"
    /\ gMessage = "none"
    /\ gDialogs = 0
    /\ gMarks = NoMarks
    /\ gBlogPostId = 0
    /\ gOp = "none"
    /\ gPc = "idle"
    /\ gCur = "none"
    /\ gTodo = <<>>
    /\ gStatusData = NoStatusData
    /\ gReqs = <<>>
    /\ gRes = <<>>

gRunning == gPc \in {"start", "status", "step"}

\* _showProgressDialog(): appends a new dialog, all steps unmarked
showProgressDialog ==
    /\ gDialogs' = gDialogs + 1
    /\ gMarks' = NoMarks

\* _hideProgressDialog(): removes one dialog, if there is one
hideProgressDialog == gDialogs' = IF gDialogs > 0 THEN gDialogs - 1 ELSE 0

\* a Continue button rendered for another blog post
continueButtonIdMutant == CHOOSE id \in PostIds : id # gBlogPostId

\* data-generate-content-blog-post-id-value="${this.blogPostId}"
continueButtonId == gBlogPostId

\* the lines of generate() and continue() after the loop
finishRun ==
    /\ hideProgressDialog
    /\ gButton' = "ViewPost"
    /\ gStatusText' = "Generated"
    /\ gMessage' = "success"
    /\ gPc' = "done"
    /\ gCur' = "none"
    /\ gTodo' = <<>>
    /\ UNCHANGED gButtonPostId

\* a catch of generate() that leaves the progress dialog in the document
generateCatchMutant ==
    /\ gDialogs' = gDialogs
    /\ gMessage' = "error"
    /\ gButton' = "Generate"
    /\ gStatusText' = "Ready"
    /\ gPc' = "failed"
    /\ gCur' = "none"
    /\ gTodo' = <<>>
    /\ gButtonPostId' = 0

\* catch of generate(): back to the Generate button
generateCatch ==
    /\ hideProgressDialog
    /\ gMessage' = "error"
    /\ gButton' = "Generate"
    /\ gStatusText' = "Ready"
    /\ gPc' = "failed"
    /\ gCur' = "none"
    /\ gTodo' = <<>>
    /\ gButtonPostId' = 0

\* catch of continue(): a Continue button for this.blogPostId
continueCatch ==
    /\ hideProgressDialog
    /\ gMessage' = "error"
    /\ gButton' = "Continue"
    /\ gButtonPostId' = continueButtonId
    /\ gPc' = "failed"
    /\ gCur' = "none"
    /\ gTodo' = <<>>
    /\ UNCHANGED gStatusText

\* the loop over the steps: _executeStep(step) up to its request, or the end
runSteps(steps, marks) ==
    IF steps = <<>>
    THEN /\ finishRun
         /\ gMarks' = marks
         /\ UNCHANGED gReqs
    ELSE /\ gCur' = Head(steps)
         /\ gTodo' = Tail(steps)
         /\ gMarks' = [marks EXCEPT ![Head(steps)] = "in_progress"]
         /\ gReqs' = Append(gReqs, Head(steps))
         /\ gPc' = "step"
         /\ UNCHANGED <<gButton, gButtonPostId, gStatusText, gMessage, gDialogs>>

\* generate(event) up to the start request
generate ==
    /\ ~gRunning
    /\ gButton = "Generate"
    /\ gButton' = "Generating"
    /\ showProgressDialog
    /\ gOp' = "generate"
    /\ gPc' = "start"
    /\ gReqs' = <<"start">>
    /\ gRes' = <<>>
    /\ gStatusData' = NoStatusData
    /\ UNCHANGED <<gButtonPostId, gStatusText, gMessage, gBlogPostId, gCur, gTodo>>

StartAnswers == {"ok", "notok", "throw"}

\* generate() from the start request's answer to the first step's request
startAnswered(answer, postId) ==
    /\ gPc = "start"
    /\ gRes' = Append(gRes, answer)
    /\ IF answer = "ok"
       THEN /\ gBlogPostId' = postId
            /\ runSteps(pipelineSteps, gMarks)
       ELSE /\ generateCatch
            /\ UNCHANGED <<gBlogPostId, gMarks, gReqs>>
    /\ UNCHANGED <<gOp, gStatusData>>

\* continue(event) up to the status request
continue ==
    /\ ~gRunning
    /\ gButton = "Continue"
    /\ gBlogPostId' = gButtonPostId
    /\ gButton' = "Continuing"
    /\ showProgressDialog
    /\ gOp' = "continue"
    /\ gPc' = "status"
    /\ gReqs' = <<"status">>
    /\ gRes' = <<>>
    /\ gStatusData' = NoStatusData
    /\ UNCHANGED <<gButtonPostId, gStatusText, gMessage, gCur, gTodo>>

\* continue() from the status answer to the first remaining step's request
statusAnswered(answer, statusData) ==
    /\ gPc = "status"
    /\ gRes' = Append(gRes, answer)
    /\ IF answer = "ok"
       THEN /\ gStatusData' = statusData
            /\ runSteps(steps_to_execute(statusData), marksFromStatus(statusData))
       ELSE /\ continueCatch
            /\ UNCHANGED <<gStatusData, gMarks, gReqs>>
    /\ UNCHANGED <<gOp, gBlogPostId>>

\* _executeStep() from its answer on, and the caller's loop or catch
stepAnswered(answer) ==
    /\ gPc = "step"
    /\ gRes' = Append(gRes, answer)
    /\ IF stepSucceeded(answer)
       THEN runSteps(gTodo, [gMarks EXCEPT ![gCur] = "completed"])
       ELSE /\ gMarks' = [gMarks EXCEPT ![gCur] = "failed"]
            /\ IF gOp = "generate" THEN generateCatch ELSE continueCatch
            /\ UNCHANGED gReqs
    /\ UNCHANGED <<gOp, gBlogPostId, gStatusData>>

GStartAnswered ==
    \E answer \in StartAnswers, postId \in PostIds : startAnswered(answer, postId)

GStatusAnswered ==
    \E answer \in StartAnswers, statusData \in StatusDatas :
        statusAnswered(answer, statusData)

GStepAnswered == \E answer \in StepAnswers : stepAnswered(answer)

\* -------------------------------------------------------------------------
\* blog-generation-pipeline controller
\* -------------------------------------------------------------------------

\* bounds of the model
MaxRetryClicks == 4    \* clicks on the retry button in one page life
MaxFlows == 2          \* async handler calls in flight at once

\* this.maxRetries
maxRetries == 3

\* this.stepNames, by index
stepNames ==
    [i \in 0 .. 4 |->
        CASE i = 0 -> "structure"
          [] i = 1 -> "content"
          [] i = 2 -> "preliminary_validation"
          [] i = 3 -> "internal_links"
          [] i = 4 -> "final_validation"]

StepIndexes == DOMAIN stepNames

LastIndex == 4

RetryClicks == bRetryCount[0] + bRetryCount[1] + bRetryCount[2] + bRetryCount[3]
               + bRetryCount[4]

BInit ==
    /\ bStarted = FALSE
    /\ bBlogPostId = 0
    /\ bRetryCount = [i \in StepIndexes |-> 0]
    /\ bRetryButton = [shown |-> FALSE, stepIndex |-> 0]
    /\ bError = "hidden"
    /\ bStepStatus = [i \in StepIndexes |-> "none"]
    /\ bProgress = 0
    /\ bCompletions = 0
    /\ bFlows = <<>>
    /\ bReqCount = [i \in StepIndexes |-> 0]
    /\ bOutcome = [i \in StepIndexes |-> "none"]

BIdle == BInit

\* the sequence without its i-th element
RemoveAt(seq, i) == SubSeq(seq, 1, i - 1) \o SubSeq(seq, i + 1, Len(seq))

\* onPipelineComplete(): success message, progress 100, link to the post
onPipelineComplete ==
    /\ bCompletions' = bCompletions + 1
    /\ bProgress' = 100

\* executeStep(step, stepIndex) up to its request, in flow f
executeStepRequest(f, stepIndex) ==
    /\ bStepStatus' = [bStepStatus EXCEPT ![stepIndex] = "In Progress..."]
    /\ bReqCount' = [bReqCount EXCEPT ![stepIndex] = @ + 1]
    /\ bFlows' = [bFlows EXCEPT ![f].pc = "step", ![f].stepIndex = stepIndex]

\* retryCount < this.maxRetries
canRetry(stepIndex) == bRetryCount[stepIndex] < maxRetries

\* startPipeline(event) up to the start request
startPipeline ==
    /\ ~bStarted
    /\ bStarted' = TRUE
    /\ bStepStatus' = [i \in StepIndexes |-> "Pending"]
    /\ bProgress' = 0
    /\ bFlows' = Append(bFlows, [kind |-> "start", pc |-> "start", stepIndex |-> 0,
                                  retried |-> 0])
    /\ UNCHANGED <<bBlogPostId, bRetryCount, bRetryButton, bError, bCompletions,
                   bReqCount, bOutcome>>

BStartAnswers == {"ok", "error", "throw"}

\* startPipeline() from the start answer to the first step's request
pipelineStartAnswered(f, answer, postId) ==
    /\ bFlows[f].pc = "start"
    /\ IF answer = "ok"
       THEN /\ bBlogPostId' = postId
            /\ executeStepRequest(f, 0)
            /\ UNCHANGED bError
       ELSE /\ bError' = "Failed to start pipeline"
            /\ bFlows' = RemoveAt(bFlows, f)
            /\ UNCHANGED <<bBlogPostId, bStepStatus, bReqCount>>
    /\ UNCHANGED <<bStarted, bRetryCount, bRetryButton, bProgress, bCompletions,
                   bOutcome>>

BStepAnswers == {"ok", "error", "throw"}

\* what the caller does when executeStep() returned false for stepIndex
stepFailedInCaller(f) ==
    /\ bFlows' = RemoveAt(bFlows, f)
    /\ IF bFlows[f].kind = "start"
       THEN onPipelineComplete
       ELSE UNCHANGED <<bCompletions, bProgress>>

\* what the caller does when executeStep() returned true for stepIndex
stepSucceededInCaller(f, stepIndex) ==
    IF stepIndex < LastIndex
    THEN /\ bStepStatus' = [bStepStatus EXCEPT ![stepIndex] = "Completed",
                                               ![stepIndex + 1] = "In Progress..."]
         /\ bReqCount' = [bReqCount EXCEPT ![stepIndex + 1] = @ + 1]
         /\ bFlows' = [bFlows EXCEPT ![f].stepIndex = stepIndex + 1]
         /\ bProgress' = ((stepIndex + 1) * 100) \div 5
         /\ UNCHANGED bCompletions
    ELSE /\ bStepStatus' = [bStepStatus EXCEPT ![stepIndex] = "Completed"]
         /\ bFlows' = RemoveAt(bFlows, f)
         /\ IF bFlows[f].kind = "start" \/ bFlows[f].retried = LastIndex
            THEN onPipelineComplete
            ELSE /\ bProgress' = 100
                 /\ UNCHANGED bCompletions
         /\ UNCHANGED bReqCount

\* executeStep() from its answer on, and the loop of the caller
pipelineStepAnswered(f, answer) ==
    LET stepIndex == bFlows[f].stepIndex IN
    /\ bFlows[f].pc = "step"
    /\ bOutcome' = [bOutcome EXCEPT ![stepIndex] = answer]
    /\ CASE answer = "ok" ->
              /\ stepSucceededInCaller(f, stepIndex)
              /\ UNCHANGED <<bRetryButton, bError>>
         [] answer = "error" ->
              /\ bStepStatus' = [bStepStatus EXCEPT ![stepIndex] = "Failed"]
              /\ IF canRetry(stepIndex)
                 THEN /\ bRetryButton' = [shown |-> TRUE, stepIndex |-> stepIndex]
                      /\ UNCHANGED bError
                 ELSE /\ bError' = "failed after maxRetries attempts"
                      /\ UNCHANGED bRetryButton
              /\ stepFailedInCaller(f)
              /\ UNCHANGED bReqCount
         [] OTHER ->
              /\ bStepStatus' = [bStepStatus EXCEPT ![stepIndex] = "Failed"]
              /\ bError' = "step failed"
              /\ stepFailedInCaller(f)
              /\ UNCHANGED <<bRetryButton, bReqCount>>
    /\ UNCHANGED <<bStarted, bBlogPostId, bRetryCount>>

\* retryStep(event) up to the retry request: the button the user clicks is
\* whatever showRetryOption() rendered last
retryStep ==
    /\ bRetryButton.shown
    /\ RetryClicks < MaxRetryClicks
    /\ Len(bFlows) < MaxFlows
    /\ bRetryCount' = [bRetryCount EXCEPT ![bRetryButton.stepIndex] = @ + 1]
    /\ bError' = "hidden"
    /\ bFlows' = Append(bFlows, [kind |-> "retry", pc |-> "retry",
                                  stepIndex |-> bRetryButton.stepIndex,
                                  retried |-> bRetryButton.stepIndex])
    /\ UNCHANGED <<bStarted, bBlogPostId, bRetryButton, bStepStatus, bProgress,
                   bCompletions, bReqCount, bOutcome>>

BRetryAnswers == {"returned", "throw"}

\* retryStep() from the retry request's return to the step's request
retryAnswered(f, answer) ==
    /\ bFlows[f].pc = "retry"
    /\ IF answer = "returned"
       THEN executeStepRequest(f, bFlows[f].stepIndex)
       ELSE /\ bFlows' = RemoveAt(bFlows, f)
            /\ UNCHANGED <<bStepStatus, bReqCount>>
    /\ UNCHANGED <<bStarted, bBlogPostId, bRetryCount, bRetryButton, bError,
                   bProgress, bCompletions, bOutcome>>

BStartAnswered ==
    \E f \in DOMAIN bFlows, answer \in BStartAnswers, postId \in PostIds :
        pipelineStartAnswered(f, answer, postId)

BStepAnswered ==
    \E f \in DOMAIN bFlows, answer \in BStepAnswers : pipelineStepAnswered(f, answer)

BRetryAnswered ==
    \E f \in DOMAIN bFlows, answer \in BRetryAnswers : retryAnswered(f, answer)

\* -------------------------------------------------------------------------
\* Sitemap analysis tasks
\* -------------------------------------------------------------------------

\* bounds of the model
MaxPages == 11         \* URLs in the largest sitemap
MaxBroken == 1         \* pages whose fetch or summary fails
MaxQueued == 1         \* analyze_sitemap_pages tasks queued per project

\* analyze_sitemap_pages(project_id, limit=10)
limit == 10

Projects == {1, 2}

\* sitemap sizes: a small sitemap, one batch exactly, more than one batch
SitemapSizes == {2, limit, MaxPages}

\* SitemapPage records, unique on (project, url)
Pages == Projects \X (1 .. MaxPages)

\* the pages that may fail: a task takes any of the unanalyzed pages, so the
\* pages of a sitemap differ only in the sitemap sizes that hold them; the
\* first page is in every sitemap, the last in the largest only
BrokenCandidates == Projects \X {1, MaxPages}

\* the SitemapPage records of a project
PagesOf(project) == {pg \in Pages : pg[1] = project /\ pg[2] <= sSize[project]}

\* the unanalyzed pages of any project: a batch that forgets the project filter
UnanalyzedMutant(project) ==
    {pg \in Pages : pg[2] <= sSize[pg[1]] /\ pg \notin sAnalyzed}

\* the unanalyzed pages of a project (date_analyzed is null)
Unanalyzed(project) == PagesOf(project) \ sAnalyzed

\* the batches a task may take: up to `limit` unanalyzed pages of the project
Batches(project) ==
    LET todo == Unanalyzed(project)
        size == IF Cardinality(todo) < limit THEN Cardinality(todo) ELSE limit
    IN {b \in SUBSET todo : Cardinality(b) = size}

SInit ==
    /\ sUrl = [p \in Projects |-> FALSE]
    /\ sParseQueued = [p \in Projects |-> FALSE]
    /\ sSize = [p \in Projects |-> 0]
    /\ sAnalyzed = {}
    /\ sCount = [pg \in Pages |-> 0]
    /\ sQueue = [p \in Projects |-> 0]
    /\ sBroken \in {b \in SUBSET BrokenCandidates : Cardinality(b) <= MaxBroken}

SIdle ==
    /\ sUrl = [p \in Projects |-> FALSE]
    /\ sParseQueued = [p \in Projects |-> FALSE]
    /\ sSize = [p \in Projects |-> 0]
    /\ sAnalyzed = {}
    /\ sCount = [pg \in Pages |-> 0]
    /\ sQueue = [p \in Projects |-> 0]
    /\ sBroken = {}

\* POST /api/projects/update-sitemap-url and the parse_sitemap_on_save signal
update_sitemap_url(project) ==
    /\ ~sUrl[project]
    /\ sUrl' = [sUrl EXCEPT ![project] = TRUE]
    /\ sParseQueued' = [sParseQueued EXCEPT ![project] = TRUE]
    /\ UNCHANGED <<sSize, sAnalyzed, sCount, sQueue, sBroken>>

\* parse_sitemap_and_save_urls(project_id): saves the URLs, schedules a batch
parse_sitemap_and_save_urls(project, size) ==
    /\ sParseQueued[project]
    /\ sParseQueued' = [sParseQueued EXCEPT ![project] = FALSE]
    /\ sSize' = [sSize EXCEPT ![project] = size]
    /\ sQueue' = [sQueue EXCEPT ![project] = @ + 1]
    /\ UNCHANGED <<sUrl, sAnalyzed, sCount, sBroken>>

\* analyze_sitemap_pages(project_id, limit=10), one queued task
analyze_sitemap_pages(project) ==
    /\ sQueue[project] > 0
    /\ sQueue' = [sQueue EXCEPT ![project] = @ - 1]
    /\ \E batch \in Batches(project) :
          LET done == batch \ sBroken IN
          /\ sAnalyzed' = sAnalyzed \cup done
          /\ sCount' = [pg \in Pages |->
                           IF pg \in done THEN sCount[pg] + 1 ELSE sCount[pg]]
    /\ UNCHANGED <<sUrl, sParseQueued, sSize, sBroken>>

\* the projects the daily task schedules a batch for
NeedsBatch == {p \in Projects : sUrl[p] /\ Unanalyzed(p) # {}}

\* analyze_project_sitemap_pages_daily(), every 24 hours
analyze_project_sitemap_pages_daily ==
    /\ \A p \in NeedsBatch : sQueue[p] < MaxQueued
    /\ sQueue' = [p \in Projects |->
                     IF p \in NeedsBatch THEN sQueue[p] + 1 ELSE sQueue[p]]
    /\ UNCHANGED <<sUrl, sParseQueued, sSize, sAnalyzed, sCount, sBroken>>

SUpdate == \E p \in Projects : update_sitemap_url(p)

SParse == \E p \in Projects, n \in SitemapSizes : parse_sitemap_and_save_urls(p, n)

SAnalyze == \E p \in Projects : analyze_sitemap_pages(p)

\* -------------------------------------------------------------------------
\* Analytics constants (src/frontend/src/constants/analytics_events.js)
\* -------------------------------------------------------------------------

\* longest event name, in characters
MaxNameLen == 2

\* most keys of the taxonomy's events object
MaxEvents == 2

\* the characters of event names: two that differ in case only, and a third
NameChars == {"a", "A", "b"}

\* event names are strings, modelled as sequences of characters
EventNameSet == UNION {[1..n -> NameChars] : n \in 1..MaxNameLen}

\* a JavaScript object without properties; objects are functions from keys
EmptyObject == << >>

\* String.prototype.toUpperCase on one character
UpperChar(c) == CASE c = "a" -> "A"
                  [] c = "b" -> "B"
                  [] OTHER -> c

\* eventName.toUpperCase()
toUpperCase(eventName) == [i \in 1..Len(eventName) |-> UpperChar(eventName[i])]

\* the keys of an events object, in insertion order: distinct names
KeyLists ==
    {ks \in UNION {[1..n -> EventNameSet] : n \in 0..MaxEvents} :
        \A i, j \in 1..Len(ks) : i # j => ks[i] # ks[j]}

\* values of deprecated_aliases in event_taxonomy.json
AliasObjects == {EmptyObject, [k \in {<<"b">>} |-> <<"a">>]}

\* event_taxonomy.json: each of the two keys may be missing
Taxonomies ==
    {t \in [hasEvents : BOOLEAN, events : KeyLists,
            hasAliases : BOOLEAN, deprecated_aliases : AliasObjects] :
        /\ ~t.hasEvents => t.events = << >>
        /\ ~t.hasAliases => t.deprecated_aliases = EmptyObject}

\* Object.keys(eventTaxonomy.events || {})
canonicalEventNames(t) == IF t.hasEvents THEN t.events ELSE << >>

\* events[key] = value
SetProperty(events, key, value) ==
    [k \in (DOMAIN events) \cup {key} |-> IF k = key THEN value ELSE events[k]]

reduceStepMutant(events, eventName) ==
    IF toUpperCase(eventName) \in DOMAIN events
    THEN events
    ELSE SetProperty(events, toUpperCase(eventName), eventName)

\* the reducer: events[eventName.toUpperCase()] = eventName; return events
reduceStep(events, eventName) ==
    SetProperty(events, toUpperCase(eventName), eventName)

RECURSIVE reduce(_, _)
\* canonicalEventNames.reduce(reducer, events)
reduce(names, events) ==
    IF names = << >>
    THEN events
    ELSE reduce(Tail(names), reduceStep(events, Head(names)))

\* const analyticsEvents
analyticsEvents(t) == reduce(canonicalEventNames(t), EmptyObject)

\* eventTaxonomy.deprecated_aliases || {}
deprecatedAliases(t) == IF t.hasAliases THEN t.deprecated_aliases ELSE EmptyObject

\* before the module is evaluated, whatever the JSON file holds
AInit ==
    /\ aTaxonomy \in Taxonomies
    /\ aLoaded = FALSE
    /\ aNames = << >>
    /\ aEvents = EmptyObject
    /\ aAliases = EmptyObject

AIdle ==
    /\ aTaxonomy = [hasEvents |-> FALSE, events |-> << >>,
                    hasAliases |-> FALSE, deprecated_aliases |-> EmptyObject]
    /\ aLoaded = FALSE
    /\ aNames = << >>
    /\ aEvents = EmptyObject
    /\ aAliases = EmptyObject

\* evaluation of the module: the four exports
importConstants ==
    /\ ~aLoaded
    /\ aLoaded' = TRUE
    /\ aNames' = canonicalEventNames(aTaxonomy)
    /\ aEvents' = analyticsEvents(aTaxonomy)
    /\ aAliases' = deprecatedAliases(aTaxonomy)
    /\ UNCHANGED aTaxonomy

\* -------------------------------------------------------------------------
\* Container entrypoint (src/unnamed/part_000)
\* -------------------------------------------------------------------------

\* most arguments of an invocation
MaxArgs == 3

\* arguments: options, grouped options, an invalid option, the end-of-options
\* mark and an operand
ArgWords == {"-s", "-w", "-x", "-sw", "-ws", "--", "foo"}

Invocations == UNION {[1..n -> ArgWords] : n \in 0..MaxArgs}

\* the option characters of an argument getopts takes for options
OptionLetters(word) ==
    CASE word = "-s" -> <<"s">>
      [] word = "-w" -> <<"w">>
      [] word = "-x" -> <<"x">>
      [] word = "-sw" -> <<"s", "w">>
      [] word = "-ws" -> <<"w", "s">>
      [] OTHER -> << >>

ExitStatuses == {0, 1}

ServerCommands == <<"collectstatic", "migrate", "gunicorn">>

WorkerCommands == <<"qcluster">>

EInit ==
    /\ eArgs \in Invocations
    /\ ePc = "start"
    /\ eServer = "unset"
    /\ eOptind = 1
    /\ eOptpos = 1
    /\ eInvalid = 0
    /\ eLog = << >>

EIdle ==
    /\ eArgs = << >>
    /\ ePc = "start"
    /\ eServer = "unset"
    /\ eOptind = 1
    /\ eOptpos = 1
    /\ eInvalid = 0
    /\ eLog = << >>

\* if [ $# -eq 0 ]; then server=true; else server=false; fi
defaultMode ==
    /\ ePc = "start"
    /\ eServer' = IF Len(eArgs) = 0 THEN "true" ELSE "false"
    /\ ePc' = "getopts"
    /\ UNCHANGED <<eArgs, eOptind, eOptpos, eInvalid, eLog>>

\* getopts has another option character to hand to the loop
MoreOptions ==
    /\ eOptind <= Len(eArgs)
    /\ OptionLetters(eArgs[eOptind]) # << >>

optionCaseMutant(option, server) ==
    CASE option = "w" -> "false"
      [] OTHER -> server

\* case "${option}" in s) server=true ;; w) server=false ;; *) echo ... ;; esac
optionCase(option, server) ==
    CASE option = "s" -> "true"
      [] option = "w" -> "false"
      [] OTHER -> server

\* one turn of the loop  while getopts ":sw" option
getoptsOption ==
    /\ ePc = "getopts"
    /\ MoreOptions
    /\ LET letters == OptionLetters(eArgs[eOptind])
           option == IF letters[eOptpos] \in {"s", "w"} THEN letters[eOptpos] ELSE "?"
       IN /\ eServer' = optionCase(option, eServer)
          /\ eInvalid' = IF option = "?" THEN eInvalid + 1 ELSE eInvalid
          /\ IF eOptpos < Len(letters)
             THEN eOptpos' = eOptpos + 1 /\ eOptind' = eOptind
             ELSE eOptpos' = 1 /\ eOptind' = eOptind + 1
    /\ UNCHANGED <<eArgs, ePc, eLog>>

\* getopts returns non-zero: at the end of the arguments, at the first
\* operand, or at "--", which it skips;  shift $((OPTIND - 1))
getoptsEnd ==
    /\ ePc = "getopts"
    /\ ~MoreOptions
    /\ eOptind' = IF eOptind <= Len(eArgs) /\ eArgs[eOptind] = "--"
                  THEN eOptind + 1
                  ELSE eOptind
    /\ ePc' = "dispatch"
    /\ UNCHANGED <<eArgs, eServer, eOptpos, eInvalid, eLog>>

\* a command of the script has run and returned; the script goes on
\* whatever the exit status
Ran(command, status) == eLog' = Append(eLog, [cmd |-> command, status |-> status])

\* python manage.py collectstatic --noinput
collectstatic ==
    /\ ePc = "dispatch"
    /\ eServer = "true"
    /\ \E status \in ExitStatuses : Ran("collectstatic", status)
    /\ ePc' = "migrate"
    /\ UNCHANGED <<eArgs, eServer, eOptind, eOptpos, eInvalid>>

\* python manage.py migrate
migrate ==
    /\ ePc = "migrate"
    /\ \E status \in ExitStatuses : Ran("migrate", status)
    /\ ePc' = "gunicorn"
    /\ UNCHANGED <<eArgs, eServer, eOptind, eOptpos, eInvalid>>

\* gunicorn ${PROJECT_NAME}.wsgi:application ...
gunicorn ==
    /\ ePc = "gunicorn"
    /\ \E status \in ExitStatuses : Ran("gunicorn", status)
    /\ ePc' = "done"
    /\ UNCHANGED <<eArgs, eServer, eOptind, eOptpos, eInvalid>>

\* python manage.py qcluster
qcluster ==
    /\ ePc = "dispatch"
    /\ eServer # "true"
    /\ \E status \in ExitStatuses : Ran("qcluster", status)
    /\ ePc' = "done"
    /\ UNCHANGED <<eArgs, eServer, eOptind, eOptpos, eInvalid>>

\* -------------------------------------------------------------------------
\* Onboarding modal controller (src/frontend/src/application/index.js)
\* -------------------------------------------------------------------------

\* longest value of the URL input, in tokens
MaxInputLen == 2

\* input events in one life of the modal
MaxInputs == 2

\* the value of the URL input is a string, modelled as a sequence of tokens:
\* a scheme prefix (http:// or https://, in any case), another character, or
\* white space
InputTokens == {"http://", "x", " "}

InputValues == UNION {[1..n -> InputTokens] : n \in 0..MaxInputLen}

RECURSIVE trimStart(_)
\* the string without its leading white space
trimStart(value) ==
    IF value # << >> /\ Head(value) = " " THEN trimStart(Tail(value)) ELSE value

RECURSIVE trimEnd(_)
\* the string without its trailing white space
trimEnd(value) ==
    IF value # << >> /\ value[Len(value)] = " "
    THEN trimEnd(SubSeq(value, 1, Len(value) - 1))
    ELSE value

\* this.urlInputTarget.value.trim()
trim(value) == trimEnd(trimStart(value))

\* url_pattern.test(url_value) for /^https?:\/\/.+/i
url_pattern(url_value) == Len(url_value) >= 2 /\ url_value[1] = "http://"

\* answers to POST /api/validate-url
CheckAnswers == {"reachable", "unreachable", "notok", "throw"}

\* answers to POST /api/projects/
SubmitAnswers == {"success", "error", "throw"}

\* after connect(); the Continue button of the markup starts disabled
OInit ==
    /\ oInput = << >>
    /\ oEvents = 0
    /\ currentStep = 1
    /\ validationTimeout = 0
    /\ oTimers = {}
    /\ oChecks = << >>
    /\ isUrlReachable = FALSE
    /\ oDisabled = TRUE
    /\ oUrlError = FALSE
    /\ oSubmit = "idle"
    /\ oSent = << >>
    /\ oVerified = {}
    /\ oSubmitted = {}

OIdle == OInit

\* clearTimeout(this.validationTimeout) without the call: the timers kept
clearTimeoutMutant(timers, id) == timers

\* clearTimeout(id): a timer that has fired or was cleared is not pending
clearTimeout(timers, id) == {t \in timers : t.id # id}

\* validateUrl(), on an input event that leaves value in the input
validateUrl(value) ==
    LET url_value == trim(value)
        is_valid == url_pattern(url_value)
        kept == IF validationTimeout # 0
                THEN clearTimeout(oTimers, validationTimeout)
                ELSE oTimers
    IN /\ currentStep = 1
       /\ oEvents < MaxInputs
       /\ oEvents' = oEvents + 1
       /\ oInput' = value
       /\ oDisabled' = TRUE
       /\ isUrlReachable' = FALSE
       /\ IF is_valid
          THEN /\ oUrlError' = FALSE
               /\ validationTimeout' = validationTimeout + 1
               /\ oTimers' = kept \cup {[id |-> validationTimeout + 1, url |-> url_value]}
          ELSE /\ oUrlError' = IF Len(url_value) > 0 THEN TRUE ELSE oUrlError
               /\ oTimers' = kept
               /\ UNCHANGED validationTimeout
       /\ UNCHANGED <<currentStep, oChecks, oSubmit, oSent, oVerified, oSubmitted>>

\* the timer of validateUrl() fires: checkUrlReachability(url_value) up to
\* its request
checkUrlReachability(timer) ==
    /\ timer \in oTimers
    /\ oTimers' = oTimers \ {timer}
    /\ oChecks' = Append(oChecks, timer.url)
    /\ oSent' = Append(oSent, timer.url)
    /\ UNCHANGED <<oInput, oEvents, currentStep, validationTimeout, isUrlReachable,
                   oDisabled, oUrlError, oSubmit, oVerified, oSubmitted>>

\* checkUrlReachability() from the answer to its request on
reachabilityAnswered(i, answer) ==
    /\ i \in DOMAIN oChecks
    /\ oChecks' = RemoveAt(oChecks, i)
    /\ isUrlReachable' = (answer = "reachable")
    /\ oDisabled' = (answer # "reachable")
    /\ oVerified' = IF answer = "reachable" THEN oVerified \cup {oChecks[i]}
                    ELSE oVerified
    /\ UNCHANGED <<oInput, oEvents, currentStep, validationTimeout, oTimers,
                   oUrlError, oSubmit, oSent, oSubmitted>>

\* submitProject(event) up to its request
submitProject ==
    LET url_value == trim(oInput) IN
    /\ currentStep = 1
    /\ oSubmit = "idle"
    /\ url_value # << >>
    /\ isUrlReachable
    /\ oDisabled' = TRUE
    /\ currentStep' = 2
    /\ oSubmit' = "posting"
    /\ oSubmitted' = oSubmitted \cup {url_value}
    /\ UNCHANGED <<oInput, oEvents, validationTimeout, oTimers, oChecks,
                   isUrlReachable, oUrlError, oSent, oVerified>>

\* submitProject() from the answer to its request on
projectAnswered(answer) ==
    /\ oSubmit = "posting"
    /\ IF answer = "success"
       THEN /\ oSubmit' = "created"
            /\ UNCHANGED <<oDisabled, currentStep>>
       ELSE /\ oSubmit' = "idle"
            /\ oDisabled' = FALSE
            /\ currentStep' = 1
    /\ UNCHANGED <<oInput, oEvents, validationTimeout, oTimers, oChecks,
                   isUrlReachable, oUrlError, oSent, oVerified, oSubmitted>>

\* the timer of submitProject() fires: goToStep(3)
goToStep3 ==
    /\ oSubmit = "created"
    /\ oSubmit' = "done"
    /\ currentStep' = 3
    /\ UNCHANGED <<oInput, oEvents, validationTimeout, oTimers, oChecks,
                   isUrlReachable, oDisabled, oUrlError, oSent, oVerified,
                   oSubmitted>>

OInput == \E value \in InputValues : validateUrl(value)

OTimerFires == \E timer \in oTimers : checkUrlReachability(timer)

OCheckAnswered ==
    \E i \in DOMAIN oChecks, answer \in CheckAnswers : reachabilityAnswered(i, answer)

OProjectAnswered == \E answer \in SubmitAnswers : projectAnswered(answer)

\* -------------------------------------------------------------------------
\* Specifications
\* -------------------------------------------------------------------------

\* what the polling controller's steps leave alone
PFrame == UNCHANGED <<gVars, bVars, sVars, aVars, eVars, oVars>>

\* what the pipeline controller's steps leave alone
GFrame == UNCHANGED <<pVars, bVars, sVars, aVars, eVars, oVars>>

\* what the retry pipeline controller's steps leave alone
BFrame == UNCHANGED <<pVars, gVars, sVars, aVars, eVars, oVars>>

\* what the sitemap tasks leave alone
SFrame == UNCHANGED <<pVars, gVars, bVars, aVars, eVars, oVars>>

\* what the evaluation of the analytics constants leaves alone
AFrame == UNCHANGED <<pVars, gVars, bVars, sVars, eVars, oVars>>

\* what the entrypoint's steps leave alone
EFrame == UNCHANGED <<pVars, gVars, bVars, sVars, aVars, oVars>>

\* what the onboarding modal's steps leave alone
OFrame == UNCHANGED <<pVars, gVars, bVars, sVars, aVars, eVars>>

InitResume == PInit /\ GIdle /\ BIdle /\ SIdle /\ AIdle /\ EIdle /\ OIdle

NextResume ==
    \/ connect /\ PFrame
    \/ disconnect /\ PFrame
    \/ PollFires /\ PFrame
    \/ PollAnswersShort /\ PFrame
    \/ Tick /\ PFrame

SpecResume == InitResume /\ [][NextResume]_vars

InitPoll == PInitLong /\ GIdle /\ BIdle /\ SIdle /\ AIdle /\ EIdle /\ OIdle

NextPoll ==
    \/ ConnectOnce /\ PFrame
    \/ disconnect /\ PFrame
    \/ GenerateOnce /\ PFrame
    \/ GenerateAnswered /\ PFrame
    \/ PollFires /\ PFrame
    \/ PollAnswersLong /\ PFrame

SpecPoll == InitPoll /\ [][NextPoll]_vars

\* timers fire, and every request the controller issued eventually returns
PollFairness ==
    /\ WF_vars(PollFires /\ PFrame)
    /\ WF_vars(PollAnswersLong /\ PFrame)
    /\ WF_vars(GenerateAnswered /\ PFrame)

SpecPollFair == InitPoll /\ [][NextPoll]_vars /\ PollFairness

InitGen == GInit /\ PIdle /\ BIdle /\ SIdle /\ AIdle /\ EIdle /\ OIdle

NextGen ==
    \/ generate /\ GFrame
    \/ GStartAnswered /\ GFrame
    \/ continue /\ GFrame
    \/ GStatusAnswered /\ GFrame
    \/ GStepAnswered /\ GFrame

SpecGen == InitGen /\ [][NextGen]_vars

InitPipeline == BInit /\ PIdle /\ GIdle /\ SIdle /\ AIdle /\ EIdle /\ OIdle

NextPipeline ==
    \/ startPipeline /\ BFrame
    \/ BStartAnswered /\ BFrame
    \/ BStepAnswered /\ BFrame
    \/ retryStep /\ BFrame
    \/ BRetryAnswered /\ BFrame

SpecPipeline == InitPipeline /\ [][NextPipeline]_vars

InitSitemap == SInit /\ PIdle /\ GIdle /\ BIdle /\ AIdle /\ EIdle /\ OIdle

NextSitemap ==
    \/ SUpdate /\ SFrame
    \/ SParse /\ SFrame
    \/ SAnalyze /\ SFrame
    \/ analyze_project_sitemap_pages_daily /\ SFrame

\* queued tasks are run by the worker cluster, and the daily schedule recurs
SitemapFairness ==
    /\ \A p \in Projects :
          /\ WF_vars(\E n \in SitemapSizes : parse_sitemap_and_save_urls(p, n) /\ SFrame)
          /\ WF_vars(analyze_sitemap_pages(p) /\ SFrame)
    /\ WF_vars(analyze_project_sitemap_pages_daily /\ SFrame)

SpecSitemap == InitSitemap /\ [][NextSitemap]_vars /\ SitemapFairness

InitConstants == AInit /\ PIdle /\ GIdle /\ BIdle /\ SIdle /\ EIdle /\ OIdle

NextConstants ==
    \/ importConstants /\ AFrame

SpecConstants == InitConstants /\ [][NextConstants]_vars

InitEntrypoint == EInit /\ PIdle /\ GIdle /\ BIdle /\ SIdle /\ AIdle /\ OIdle

NextEntrypoint ==
    \/ defaultMode /\ EFrame
    \/ getoptsOption /\ EFrame
    \/ getoptsEnd /\ EFrame
    \/ collectstatic /\ EFrame
    \/ migrate /\ EFrame
    \/ gunicorn /\ EFrame
    \/ qcluster /\ EFrame

SpecEntrypoint == InitEntrypoint /\ [][NextEntrypoint]_vars

InitOnboarding == OInit /\ PIdle /\ GIdle /\ BIdle /\ SIdle /\ AIdle /\ EIdle

NextOnboarding ==
    \/ OInput /\ OFrame
    \/ OTimerFires /\ OFrame
    \/ OCheckAnswered /\ OFrame
    \/ submitProject /\ OFrame
    \/ OProjectAnswered /\ OFrame
    \/ goToStep3 /\ OFrame

SpecOnboarding == InitOnboarding /\ [][NextOnboarding]_vars

\* ---- claims about the polling controller

\* the step is a connect()
ConnectStep == ~pConnected /\ pConnected'

\* a parseable entry whose startTime is a number less than 10 minutes old
FreshEntry(entry, now) ==
    /\ entry.kind = "obj"
    /\ entry.startTime.kind = "num"
    /\ (now - entry.startTime.v) * TimeUnitMinutes < ResumeWindowMinutes

\* connect() resumed polling with the stored task id and kept the entry
ResumedStep ==
    /\ pButton' = "Generating"
    /\ pStatus' = "Generating"
    /\ pSess' = Append(pSess, NewSession(pStorage.taskId))
    /\ pollingTimeoutId' = Len(pSess')
    /\ pStorage' = pStorage

\* connect() removed the entry and started no polling
RemovedStep ==
    /\ pStorage' = NoEntry
    /\ pSess' = pSess
    /\ pollingTimeoutId' = 0

\* C1: on connect(), a parseable entry with a startTime less than 10 minutes
\* old makes the controller show the generating state, resume polling with
\* the stored taskId and keep the entry; every other existing entry is
\* removed and no polling is started.
C1_ResumeOrRemove ==
    [][(ConnectStep /\ pStorage.kind # "absent") =>
         IF FreshEntry(pStorage, pNow) THEN ResumedStep ELSE RemovedStep]_vars

\* C1 holds of every entry except the empty string, which getItem() returns
\* as a falsy value: the entry then stays and no polling is started.
C1_ExceptEmptyString ==
    [][ConnectStep =>
         CASE pStorage.kind = "absent" -> pSess' = pSess /\ pStorage' = pStorage
           [] pStorage.kind = "empty" -> pSess' = pSess /\ pStorage' = pStorage
           [] FreshEntry(pStorage, pNow) -> ResumedStep
           [] OTHER -> RemovedStep]_vars

C1_EmptyEntryKept ==
    /\ pConnected
    /\ pStorage.kind = "empty"
    /\ pSess = <<>>

LongerMessage == "Content generation is taking longer than expected"

\* the step is the answer 'processing' to the maxAttempts-th request of s
HundredthProcessing(s) ==
    /\ pSess[s].phase = "fetch"
    /\ pSess[s].requests = maxAttempts
    /\ pSess'[s].phase # "fetch"
    /\ pSess'[s].last = "processing"

\* C5: a polling session issues at most maxAttempts = 100 task-status
\* requests; when the 100th is answered 'processing', no further poll is
\* scheduled, the 'taking longer than expected' error is shown and the UI is
\* reset to the initial Generate state.
C5_PollLimit ==
    /\ [](\A s \in DOMAIN pSess : pSess[s].requests <= maxAttempts)
    /\ [][\A s \in DOMAIN pSess :
            HundredthProcessing(s) =>
                /\ pSess'[s].phase = "ended"
                /\ pMessage' = LongerMessage
                /\ pButton' = "Generate"
                /\ pStatus' = "Ready"]_vars

C5_LimitReached ==
    \E s \in DOMAIN pSess :
        /\ pSess[s].requests = maxAttempts
        /\ pSess[s].last = "processing"
        /\ pSess[s].phase = "ended"
        /\ pMessage = LongerMessage
        /\ pButton = "Generate"

\* ---- claims about the pipeline generate-content controller

\* the step requests of the run so far (all requests but the first)
StepReqs == IF gReqs = <<>> THEN <<>> ELSE Tail(gReqs)

\* the answers to the step requests of the run so far
StepRes == IF gRes = <<>> THEN <<>> ELSE Tail(gRes)

IsPrefix(a, b) == Len(a) <= Len(b) /\ \A i \in 1 .. Len(a) : a[i] = b[i]

\* the backend step a pipeline step stands for, as the API names it
BackendOf ==
    [st \in FrontendSteps |->
        CASE st = "structure" -> "generate_structure"
          [] st = "content" -> "generate_content"
          [] st = "preliminary_validation" -> "preliminary_validation"
          [] st = "internal_links" -> "insert_internal_links"
          [] st = "final_validation" -> "final_validation"]

ReportedCompleted(st) ==
    gStatusData.hasSteps /\ gStatusData.steps[BackendOf[st]] = "completed"

\* the pipeline steps the server did not report completed, in pipeline order
NotCompleted == SelectSeq(pipelineSteps, LAMBDA st : ~ReportedCompleted(st))

\* the answer was HTTP ok and did not mark the step failed
OkNotFailed(answer) == answer \in {"ok_completed", "ok_nostate"}

\* a continue() that received the pipeline status
ContinueWithStatus == gOp = "continue" /\ Len(gRes) >= 1 /\ gRes[1] = "ok"

\* C2 as stated: a continue() that received the pipeline status issues
\* exactly the step requests of the steps not reported completed.
C2_ExactlyNotCompleted ==
    (ContinueWithStatus /\ ~gRunning) => StepReqs = NotCompleted

\* C2 amended: the step requests of continue() are, in pipeline order and each
\* at most once, the steps not reported completed, up to and including the
\* first one whose request fails; all of them when none fails; a step
\* reported completed is never requested.
C2_PrefixOfNotCompleted ==
    ContinueWithStatus =>
        /\ IsPrefix(StepReqs, NotCompleted)
        /\ \A i \in 1 .. Len(StepReqs) : ~ReportedCompleted(StepReqs[i])
        /\ \A i \in 1 .. Len(StepRes) :
              i < Len(StepReqs) => OkNotFailed(StepRes[i])
        /\ gPc = "done" => StepReqs = NotCompleted
        /\ gPc = "failed" =>
              /\ Len(StepRes) = Len(StepReqs)
              /\ ~OkNotFailed(StepRes[Len(StepRes)])

\* continue() skipped a completed step, ran the others and finished
C2_SkippedAndFinished ==
    /\ ContinueWithStatus
    /\ gPc = "done"
    /\ ReportedCompleted("structure")
    /\ ~ReportedCompleted("content")
    /\ ReportedCompleted("internal_links")
    /\ StepReqs = <<"content", "preliminary_validation", "final_validation">>

\* generate() whose start request succeeded
GenerateStarted == gOp = "generate" /\ Len(gRes) >= 1 /\ gRes[1] = "ok"

\* C3: after a successful start, generate() requests the five steps strictly
\* in pipeline order, each at most once, and requests a step only after the
\* previous step's request returned ok with a status other than 'failed'.
C3_StepsInOrder ==
    /\ gOp = "generate" => (gReqs # <<>> /\ gReqs[1] = "start")
    /\ (gOp = "generate" /\ Len(gReqs) > 1) => GenerateStarted
    /\ GenerateStarted =>
          /\ IsPrefix(StepReqs, pipelineSteps)
          /\ Len(StepRes) \in {Len(StepReqs), Len(StepReqs) - 1}
          /\ \A i \in 1 .. Len(StepRes) :
                i < Len(StepReqs) => OkNotFailed(StepRes[i])

\* generate() requested all five steps and finished
C3_AllFiveRequested ==
    /\ GenerateStarted
    /\ gPc = "done"
    /\ StepReqs = pipelineSteps
    /\ gButton = "ViewPost"

\* a run that got a blog post (start or status answered ok) and then failed
FailedAfterStart ==
    /\ gPc = "failed"
    /\ gOp \in {"generate", "continue"}
    /\ (gOp = "generate" => GenerateStarted)

\* C6 as stated: after a failure in continue() or in generate() (after the
\* start succeeded) the UI offers an action on the same blog post id that
\* does not call the start endpoint again.
C6_ResumableAfterAnyFailure ==
    FailedAfterStart =>
        /\ gButton = "Continue"
        /\ gButtonPostId = gBlogPostId

\* C6 amended: after a failure in continue() the UI offers Continue on the
\* same blog post id, and continue() never calls the start endpoint; after a
\* failure in generate() the UI offers only Generate, whose action calls the
\* start endpoint again.
C6_ResumableAfterContinueFailure ==
    /\ (gPc = "failed" /\ gOp = "continue") =>
          /\ gButton = "Continue"
          /\ gButtonPostId = gBlogPostId
          /\ gBlogPostId \in PostIds
    /\ gOp = "continue" => \A i \in 1 .. Len(gReqs) : gReqs[i] # "start"
    /\ (gPc = "failed" /\ gOp = "generate") =>
          /\ gButton = "Generate"
          /\ gButtonPostId = 0
    /\ (gOp = "generate" /\ gReqs # <<>>) => gReqs[1] = "start"

\* continue() failed at a step after an earlier step of the run succeeded
C6_ContinueFailedMidway ==
    /\ gPc = "failed"
    /\ gOp = "continue"
    /\ Len(StepReqs) >= 2
    /\ gButton = "Continue"
    /\ gButtonPostId = gBlogPostId

\* ---- claims about the blog-generation-pipeline controller

\* C4: a failed step is retried at most maxRetries = 3 times: no step is
\* requested more than 4 times in one pipeline run, whatever the sequence of
\* retryStep clicks.
C4_AtMostFourRequests ==
    \A i \in StepIndexes : bReqCount[i] <= maxRetries + 1

\* ---- claims about the sitemap analysis tasks

\* C7: every page saved from a project's sitemap is eventually analyzed, for
\* any sitemap size and also when fetching or summarizing some page fails.
C7_EveryPageEventuallyAnalyzed ==
    \A p \in Projects : (sSize[p] > 0) ~> (PagesOf(p) \subseteq sAnalyzed)

\* the step is one analyze_sitemap_pages task of project p
BatchStep(p) == sQueue'[p] = sQueue[p] - 1

\* C8: one analyze_sitemap_pages(project_id, limit=10) marks at most 10
\* pages as analyzed, only pages of that project that were unanalyzed before
\* the call, and no page is marked analyzed a second time.
C8_BatchOfTen ==
    /\ [](\A pg \in Pages : sCount[pg] <= 1 /\ (sCount[pg] = 1 <=> pg \in sAnalyzed))
    /\ [][\A p \in Projects :
            BatchStep(p) =>
                LET marked == {pg \in Pages : sCount'[pg] # sCount[pg]} IN
                /\ Cardinality(marked) <= limit
                /\ \A pg \in marked :
                      /\ pg[1] = p
                      /\ pg[2] <= sSize[p]
                      /\ pg \notin sAnalyzed
                      /\ pg \in sAnalyzed'
                /\ sAnalyzed' = sAnalyzed \cup marked]_vars
    /\ [][(\E p \in Projects : BatchStep(p)) \/ sCount' = sCount]_vars

\* a sitemap larger than one batch: a first batch of ten, the rest later,
\* while another project has pages of its own
C8_TwoBatches ==
    \E p \in Projects, q \in Projects :
        /\ p # q
        /\ sSize[p] = MaxPages
        /\ sBroken = {}
        /\ PagesOf(p) \subseteq sAnalyzed
        /\ sSize[q] > 0
        /\ Unanalyzed(q) = PagesOf(q)

\* ---- claims about the analytics constants

\* the canonical names, as a set
CanonicalNames == {aNames[i] : i \in 1..Len(aNames)}

\* the position of the last canonical name with upper-case form key
LastWithUpperCase(key) ==
    CHOOSE i \in 1..Len(aNames) :
        /\ toUpperCase(aNames[i]) = key
        /\ \A j \in 1..Len(aNames) : toUpperCase(aNames[j]) = key => j <= i

\* two canonical names have the same upper-case form
UpperCaseCollision ==
    \E i, j \in 1..Len(aNames) :
        i < j /\ toUpperCase(aNames[i]) = toUpperCase(aNames[j])

\* a key missing from the JSON yields the empty constant
MissingKeysGiveEmpty ==
    /\ ~aTaxonomy.hasEvents => aNames = << >> /\ aEvents = EmptyObject
    /\ ~aTaxonomy.hasAliases => aAliases = EmptyObject

\* C9 as stated: once the module is evaluated, ANALYTICS_EVENT_NAMES is the
\* keys of events, ANALYTICS_EVENTS holds for every canonical name e the entry
\* upper(e) -> e and no other entry, and a missing events or
\* deprecated_aliases key yields empty constants.
C9_EntryForEveryEvent ==
    aLoaded =>
        /\ aNames = aTaxonomy.events
        /\ DOMAIN aEvents = {toUpperCase(e) : e \in CanonicalNames}
        /\ \A e \in CanonicalNames : aEvents[toUpperCase(e)] = e
        /\ MissingKeysGiveEmpty

\* C9 amended: once the module is evaluated, ANALYTICS_EVENT_NAMES is the keys
\* of events; the keys of ANALYTICS_EVENTS are exactly the upper-case forms of
\* the canonical names, and each key maps to the last canonical name, in key
\* order, with that upper-case form, so that every value is canonical and,
\* when no two names share an upper-case form, the entries are exactly
\* upper(e) -> e; a missing events or deprecated_aliases key yields empty
\* constants, and a present deprecated_aliases is exported as it is.
C9_EntryForEveryUpperCaseForm ==
    aLoaded =>
        /\ aNames = aTaxonomy.events
        /\ DOMAIN aEvents = {toUpperCase(e) : e \in CanonicalNames}
        /\ \A key \in DOMAIN aEvents : aEvents[key] = aNames[LastWithUpperCase(key)]
        /\ ~UpperCaseCollision => \A e \in CanonicalNames : aEvents[toUpperCase(e)] = e
        /\ MissingKeysGiveEmpty
        /\ aTaxonomy.hasAliases => aAliases = aTaxonomy.deprecated_aliases

\* C9 witness: the constants were built from names that collide in upper case
C9_CollidingNamesLoaded ==
    /\ aLoaded
    /\ UpperCaseCollision
    /\ aTaxonomy.hasAliases

\* ---- claims about the entrypoint

RECURSIVE Flatten(_)
\* the option characters of a list of arguments, in order
Flatten(args) ==
    IF args = << >>
    THEN << >>
    ELSE OptionLetters(Head(args)) \o Flatten(Tail(args))

RECURSIVE LeadingOptions(_)
\* the arguments before the first one that is not an option argument
LeadingOptions(args) ==
    IF args = << >> \/ OptionLetters(Head(args)) = << >>
    THEN << >>
    ELSE <<Head(args)>> \o LeadingOptions(Tail(args))

IsModeLetter(letter) == letter \in {"s", "w"}

\* the mode the last of the letters s and w selects; "none" without either
ModeOf(letters) ==
    LET modes == SelectSeq(letters, IsModeLetter)
    IN IF modes = << >> THEN "none"
       ELSE IF modes[Len(modes)] = "s" THEN "server" ELSE "worker"

\* the commands the invocation ran, in order
CommandsRun == [i \in 1..Len(eLog) |-> eLog[i].cmd]

\* the mode the commands run belong to
ModeRun ==
    IF CommandsRun = ServerCommands THEN "server"
    ELSE IF CommandsRun = WorkerCommands THEN "worker"
    ELSE "neither"

\* never a command of the other mode, and the server's commands in order
OneModeInOrder ==
    /\ \/ \E n \in 0..Len(ServerCommands) : CommandsRun = SubSeq(ServerCommands, 1, n)
       \/ CommandsRun = WorkerCommands
    /\ ePc = "done" => ModeRun # "neither"

\* C10 as stated: every invocation runs exactly one of the two modes; with no
\* arguments or with -s it runs the server (collectstatic, migrate, gunicorn,
\* in this order), with -w the worker (qcluster, never migrate), and when
\* both -s and -w are given the last one given wins.
C10_LastGivenOptionWins ==
    /\ OneModeInOrder
    /\ ePc = "done" =>
          /\ Len(eArgs) = 0 => ModeRun = "server"
          /\ ModeOf(Flatten(eArgs)) # "none" => ModeRun = ModeOf(Flatten(eArgs))

\* C10 amended: every invocation runs exactly one of the two modes, the
\* server's commands in order and whatever their exit statuses; the options
\* that count are those getopts parses, the option arguments before the first
\* argument that is not one (an operand or "--"): the last -s or -w among them
\* selects server or worker, and without any the invocation runs the server
\* when it has no arguments at all and the worker otherwise.
C10_LastParsedOptionWins ==
    /\ OneModeInOrder
    /\ ePc = "done" =>
          LET parsed == ModeOf(Flatten(LeadingOptions(eArgs)))
          IN ModeRun = IF parsed # "none" THEN parsed
                       ELSE IF Len(eArgs) = 0 THEN "server" ELSE "worker"

\* C10 witness: -w, then -s, then an operand: the server ran, all three
\* commands, though collectstatic failed
C10_ServerAfterWorkerOption ==
    /\ ePc = "done"
    /\ Len(eArgs) = 3 /\ eArgs[1] = "-w" /\ eArgs[2] = "-s" /\ eArgs[3] = "foo"
    /\ ModeRun = "server"
    /\ eLog[1].status = 1

\* ---- claims about the completion report of the retry pipeline

\* the call of startPipeline() is in flight
StartFlowRunning == \E f \in DOMAIN bFlows : bFlows[f].kind = "start"

\* this step ends the call of startPipeline()
StartFlowEnds ==
    /\ StartFlowRunning
    /\ \A f \in DOMAIN bFlows' : bFlows'[f].kind # "start"

\* this step reports the pipeline complete
ReportsComplete == bCompletions' = bCompletions + 1

\* the last answer of every step was a success
AllFiveSucceeded(outcome) == \A i \in StepIndexes : outcome[i] = "ok"

\* C11: startPipeline() reports the pipeline complete (onPipelineComplete)
\* only when all five steps returned success; when a step fails the loop
\* stops and completion is not reported.
C11_CompleteOnlyAfterFiveSuccesses ==
    [][StartFlowEnds => (ReportsComplete <=> AllFiveSucceeded(bOutcome'))]_vars

\* C12: when the step retryStep() retries succeeds and every following step
\* then succeeds, the pipeline is reported complete, whichever step was the
\* retried one; when a following step fails, completion is not reported.
C12_RetryReportsComplete ==
    [][\A f \in DOMAIN bFlows :
          (/\ bFlows[f].kind = "retry"
           /\ bFlows[f].pc = "step"
           /\ Len(bFlows) = 1
           /\ bFlows' = << >>) =>
             (ReportsComplete <=>
                 (bFlows[f].stepIndex = LastIndex /\ bOutcome'[LastIndex] = "ok"))]_vars

\* ---- claims about the polling controller's storage entry and its loops

\* the polling sessions with a pending poll timer or a status request in flight
ActiveSessions == {s \in DOMAIN pSess : pSess[s].phase \in {"timer", "fetch"}}

\* this step ends polling session s: poll() returns without a new timer
SessionEnds(s) == pSess[s].phase = "fetch" /\ pSess'[s].phase = "ended"

\* this step writes the localStorage entry
EntryWritten == pStorage' # pStorage /\ pStorage' # NoEntry

\* C13: the localStorage entry is written only after the server answered the
\* generate request with status 'processing' and a task id, and it is removed
\* whenever a polling session ends, for every way of ending (completed, failed
\* or error, a non-ok response, a thrown fetch, the 100-attempt limit, or a
\* status value that is none of these).
C13_EntryWrittenAndRemoved ==
    /\ [][EntryWritten =>
            /\ pGen = "posting" /\ pGen' = "idle"
            /\ Len(pSess') = Len(pSess) + 1
            /\ pStorage' = StoredTask(pSess'[Len(pSess')].taskId, pNow)]_vars
    /\ [][\A s \in DOMAIN pSess : SessionEnds(s) => pStorage' = NoEntry]_vars

\* C14: after disconnect() returned, the controller issues no further
\* task-status request and schedules no further poll, also when a status
\* request was in flight at the moment of the disconnect.
C14_NoPollingAfterDisconnect ==
    [][(~pConnected /\ ~pConnected') =>
          \A s \in DOMAIN pSess :
              /\ pSess'[s].requests = pSess[s].requests
              /\ pSess'[s].phase = "timer" => pSess[s].phase = "timer"]_vars

\* C15: if every task-status request eventually returns, every polling
\* session eventually ends with the UI in the completed state (View Post) or
\* reset to the Generate state; the UI of a connected controller never stays
\* in 'Generating...' with no poll pending and no request in flight.
C15_GeneratingEventuallyEnds ==
    (pConnected /\ pButton = "Generating")
        ~> (pButton \in {"ViewPost", "Generate"} \/ ~pConnected)

\* C16: at most one polling loop (pending poll timer or status request in
\* flight) is active per controller at any time, over any sequence of
\* connect, generate, poll responses, disconnect and reconnect.
C16_AtMostOneLoop == Cardinality(ActiveSessions) <= 1

\* ---- claims about failures and the progress dialog of the pipeline
\* ---- generate-content controller

\* the answer to the start request or to a step request was a success
RequestSucceeded(answer) == answer = "ok" \/ OkNotFailed(answer)

\* C17: if the start request or a step of generate() fails (non-ok response,
\* thrown fetch, or a pipeline_state that marks the step 'failed'), no later
\* step is requested, the failed step is marked failed, the progress dialog
\* is removed, the button returns to Generate and the status to 'Ready to
\* generate', and neither the View Post link nor the success message is shown.
C17_GenerateFailureResets ==
    gOp = "generate" =>
        /\ \A i \in 1 .. Len(gRes) :
              ~RequestSucceeded(gRes[i]) => (i = Len(gReqs) /\ gPc = "failed")
        /\ gPc = "failed" =>
              /\ Len(gRes) = Len(gReqs)
              /\ ~RequestSucceeded(gRes[Len(gRes)])
              /\ Len(gReqs) > 1 => gMarks[gReqs[Len(gReqs)]] = "failed"
              /\ gDialogs = 0
              /\ gButton = "Generate"
              /\ gStatusText = "Ready"
              /\ gMessage = "error"

\* generate() failed at its third step, whose answer marked the step failed
C17_ThirdStepFailed ==
    /\ gOp = "generate"
    /\ gPc = "failed"
    /\ StepReqs = <<"structure", "content", "preliminary_validation">>
    /\ gRes[Len(gRes)] = "ok_failed"
    /\ gMarks["content"] = "completed"

\* the step was completed before the run or by a request of the run
StepCompleted(st) ==
    \/ ReportedCompleted(st)
    \/ \E i \in 1 .. Len(StepRes) : StepReqs[i] = st /\ OkNotFailed(StepRes[i])

\* C18: generate() and continue() show the View Post link and the status
\* 'Generated' only when each of the five pipeline steps is completed, either
\* reported completed by the server status or completed by a successful step
\* request of this run; and when either operation has finished, on success or
\* on failure, no progress dialog remains in the document.
C18_ViewPostOnlyWhenAllCompleted ==
    /\ (gButton = "ViewPost" \/ gStatusText = "Generated") =>
          /\ gPc = "done"
          /\ \A st \in FrontendSteps : StepCompleted(st)
    /\ gPc = "done" => (gButton = "ViewPost" /\ gStatusText = "Generated")
    /\ ~gRunning => gDialogs = 0
    /\ gRunning => gDialogs = 1

\* continue() finished after the server reported a step failed and two steps
\* completed: the failed step and the unreported ones were executed
C18_ViewPostAfterContinue ==
    /\ gOp = "continue"
    /\ gPc = "done"
    /\ gButton = "ViewPost"
    /\ gStatusData.hasSteps
    /\ gStatusData.steps["generate_content"] = "failed"
    /\ ReportedCompleted("structure")
    /\ ReportedCompleted("final_validation")
    /\ gDialogs = 0

\* -------------------------------------------------------------------------
\* C19, C20: the onboarding modal
\* -------------------------------------------------------------------------

\* C19: the Continue button is enabled and isUrlReachable is true only while
\* the URL in the input is one the server reported reachable, and
\* submitProject() only ever sends such a URL.
C19_OnlyVerifiedUrlSubmittable ==
    /\ (isUrlReachable \/ ~oDisabled) => trim(oInput) \in oVerified
    /\ oSubmitted \subseteq oVerified

\* the step is validateUrl() handling an input event
InputHandled == oEvents' = oEvents + 1

\* the step sends a reachability request
CheckSent == Len(oSent') = Len(oSent) + 1

\* C20: at most one reachability timer is pending; an input event cancels
\* the timer that was pending, so a request is only ever sent for the value
\* of the last input event; an input that does not match the pattern leaves
\* no timer pending, sends no request and leaves Continue disabled.
C20_OneTimerLastValue ==
    /\ [](Cardinality(oTimers) <= 1)
    /\ [][InputHandled => oTimers' \cap oTimers = {}]_vars
    /\ [][CheckSent => /\ oSent'[Len(oSent')] = trim(oInput)
                       /\ url_pattern(trim(oInput))]_vars
    /\ [][InputHandled /\ ~url_pattern(trim(oInput'))
            => oTimers' = {} /\ oSent' = oSent /\ oChecks' = oChecks /\ oDisabled']_vars

\* two matching inputs in a burst (two timers set), and one request, for the
\* last of them
C20_BurstSentOnce ==
    /\ oEvents = 2
    /\ validationTimeout = 2
    /\ oSent = <<trim(oInput)>>
    /\ oTimers = {}

====
